---- MODULE Spec2Model ----
(***************************************************************************)
(* TowTrack CRM: trip lifecycle, cost calculation and access scoping.      *)
(*                                                                         *)
(* The state is the contents of the users, clients and trips tables        *)
(* (shared/schema.ts) plus the response of the last HTTP request.  Every   *)
(* action is one Express route handler of server/routes.ts together with   *)
(* the DatabaseStorage method(s) of server/storage.ts it calls; for        *)
(* concurrent requests PATCH /api/trips/:id is also given in two steps,    *)
(* split where the handler awaits the database.                            *)
(*                                                                         *)
(* Decimal columns (distance_km, rate_per_km, cost_calculated; scale 2)    *)
(* are integers counting hundredths: 1000 is "10.00".                      *)
(* A nullable column or an optional body field is a sequence of length at  *)
(* most one: << >> is NULL / undefined, << v >> carries the value v.  A    *)
(* body field that is present and null is << << >> >>.                     *)
(***************************************************************************)
EXTENDS Integers, Sequences, FiniteSets, TLC

\* ------------------------------------------------------------------ bounds
MaxTrips == 2
MaxClients == 2
\* trips created in the lifecycle and in the cost scenarios
MaxLifeTrips == 1
MaxCostTrips == 1

\* ------------------------------------------------------------ value domains
Null == << >>
Absent == << >>
Some(v) == << v >>

UserIds == {"d1", "d2", "a1"}
Statuses == {"draft", "submitted", "approved", "rejected"}

\* rate_per_km default "1.50" and one more negotiated rate, in hundredths
DefaultRate == 150
Rates == {150, 200}
\* distances a caller sends: 10.00 km, 15.00 km and 0.85 km
Distances == {1000, 1500, 85}
NoteTexts == {"n1"}
\* trip_date values, as days
Dates == {1}

\* ------------------------------------------------------------------- state
VARIABLES
    users,     \* users table: id -> [role, firstName, lastName, vehicleName]
    clients,   \* clients table: id -> NULL or [ratePerKm]
    nextClientId, \* identity sequence of clients.id
    trips,     \* trips table: sequence indexed by the identity column id
    resp,      \* the last request and its response
    pending    \* per caller: the PATCH /api/trips/:id request that passed the
               \* route's checks and awaits storage.updateTrip, or NULL

vars == << users, clients, nextClientId, trips, resp, pending >>

\* shared/schema.ts: trips columns that carry a behavioural contract
TripRow(driverId, clientId, distanceKm, tripDate, status, adminNotes, cost) ==
    [driverId |-> driverId, clientId |-> clientId, distanceKm |-> distanceKm,
     tripDate |-> tripDate, status |-> status, adminNotes |-> adminNotes,
     costCalculated |-> cost]

TripIds == 1..Len(trips)

\* ids a caller can put in a URL; an id not yet generated names no row
ClientIds == 1..MaxClients
TripIdInputs == 1..MaxTrips

\* ---------------------------------------------------------- request bodies
BodyFields == {"clientId", "distanceKm", "tripDate", "status", "driverId",
               "costCalculated"}

TripBodies ==
    [clientId : {Absent, Some(Null)} \cup {Some(Some(c)) : c \in 1..MaxClients},
     distanceKm : {Absent} \cup {Some(d) : d \in Distances},
     tripDate : {Absent} \cup {Some(d) : d \in Dates},
     status : {Absent} \cup {Some(s) : s \in Statuses},
     driverId : {Absent} \cup {Some(u) : u \in UserIds},
     costCalculated : {Absent, Some(Some(99999))}]

Supplied(body) == {f \in BodyFields : body[f] # Absent}

OneField(b) == Cardinality(Supplied(b)) <= 1

\* ------------------------------------------------------------ pure helpers
\* a ?? b on an optional, nullable body field a
Coalesce(a, b) == IF a = Absent \/ a = Some(Null) THEN b ELSE a[1]

Abs(n) == IF n < 0 THEN -n ELSE n

\* Pairs (distance, rate) of the modelled domain whose IEEE-754 product
\* Number(distance) * Number(rate) lies strictly below the decimal midpoint
\* it should hit: Number("0.85") * Number("1.50") is
\* 1.274999999999999911182158029987476766109466552734375, not 1.275.
DoubleBelowMidpoint == { << 85, 150 >> }

\* (Number(distance) * Number(client.ratePerKm)).toFixed(2), in hundredths.
\* toFixed rounds the exact value of the double to the nearest hundredth and
\* takes the larger candidate on an exact tie.
ToFixed2(distance, rate) ==
    LET p == Abs(distance) * rate
        q == p \div 100
        r == p % 100
        n == IF r < 50 THEN q
             ELSE IF r > 50 THEN q + 1
             ELSE IF << Abs(distance), rate >> \in DoubleBelowMidpoint THEN q
             ELSE q + 1
    IN IF distance < 0 THEN -n ELSE n

\* storage.getClient
getClient(id) == IF id \in ClientIds THEN clients[id] ELSE Null

\* getTrip without the driver_id condition
getTripAnyOwner(id, driverId) ==
    IF id \in TripIds THEN Some(trips[id]) ELSE Null

\* storage.getTrip(id, driverId): driverId is Absent for an admin caller
getTrip(id, driverId) ==
    IF /\ id \in TripIds
       /\ (driverId # Absent => trips[id].driverId = driverId[1])
    THEN Some(trips[id]) ELSE Null

\* the cost both createTrip and updateTrip compute: undefined unless the
\* client id is truthy and the client row exists
CalcCost(clientId, distance) ==
    IF clientId # Null /\ getClient(clientId[1]) # Null
    THEN Some(ToFixed2(distance, getClient(clientId[1])[1].ratePerKm))
    ELSE Absent

\* the trips table without the foreign key
ClientFkNone(clientId) == TRUE

\* foreign key trips.client_id -> clients.id
ClientFkOk(clientId) == clientId = Null \/ getClient(clientId[1]) # Null

RoleOf(u) == users[u].role

\* every caller handled as the admin is: no driver scope
ScopeOfNobody(actor) == Absent

\* routes: const driverId = user?.role === "admin" ? undefined : userId
ScopeOf(actor) == IF RoleOf(actor) = "admin" THEN Absent ELSE Some(actor)

\* the last request (route, caller, :id or query string, the driverId and
\* the costCalculated a POST or PATCH /api/trips body and the role a PATCH /api/user/profile body carried)
\* and what the handler answered: the status
\* code, the ids of the rows of a GET /api/trips answer, the row of a
\* GET /api/trips/:id answer
NoQuery == [status |-> Absent, limit |-> Absent, driverId |-> Absent]

Response(op, actor, id, code, list, row) ==
    [op |-> op, actor |-> actor, id |-> id, query |-> NoQuery,
     bodyDriverId |-> Absent, bodyCost |-> Absent, bodyRole |-> Absent,
     code |-> code,
     list |-> list, row |-> row]

\* isAdmin letting every authenticated caller through
isAdminAnyone(actor) == TRUE

\* replitAuth.isAdmin: req.user is re-read from the users table per request
isAdmin(actor) == RoleOf(actor) = "admin"

NoBody == [f \in BodyFields |-> Absent]

\* ---------------------------------------------------------------- initial
Init ==
    /\ users = [u \in UserIds |->
                  [role |-> IF u = "a1" THEN "admin" ELSE "driver",
                   firstName |-> Some("Demo"),
                   lastName |-> Some(IF u = "a1" THEN "Administrators"
                                     ELSE "Vaditajs"),
                   vehicleName |-> Null]]
    /\ clients = [c \in ClientIds |-> Null]
    /\ nextClientId = 1
    /\ trips = << >>
    /\ resp = Response("none", "a1", 0, 0, {}, Null)
    /\ pending = [u \in UserIds |-> Null]

\* ------------------------------------------------------------- user routes
ProfileBodies ==
    [firstName : {Absent, Some("F")},
     lastName : {Absent, Some("L")},
     vehicleName : {Absent, Some("V")},
     role : {Absent, Some("admin"), Some("driver")}]

\* storage.upsertUser on an existing id: ON CONFLICT (id) DO UPDATE SET
\* { ...userData, updatedAt }; a key whose value is undefined is left out
upsertUser(userData) ==
    LET Set(field) == IF userData[field] = Absent THEN users[userData.id][field]
                      ELSE userData[field]
    IN [users EXCEPT ![userData.id] =
          [role |-> IF userData.role = Absent THEN @.role ELSE userData.role[1],
           firstName |-> Set("firstName"),
           lastName |-> Set("lastName"),
           vehicleName |-> Set("vehicleName")]]

\* the route passing the whole body to upsertUser
profileDataOfBody(userId, body) ==
    [id |-> userId, firstName |-> body.firstName, lastName |-> body.lastName,
     vehicleName |-> body.vehicleName, role |-> body.role]

\* routes: const { firstName, lastName, vehicleName } = req.body
profileDataOf(userId, body) ==
    [id |-> userId, firstName |-> body.firstName, lastName |-> body.lastName,
     vehicleName |-> body.vehicleName, role |-> Absent]

\* PATCH /api/user/profile -> storage.upsertUser
PatchProfile(actor, body) ==
    /\ users' = upsertUser(profileDataOf(actor, body))
    /\ resp' = [Response("patchProfile", actor, 0, 200, {}, Null)
                  EXCEPT !.bodyRole = body.role]
    /\ UNCHANGED << pending, clients, nextClientId, trips >>

\* ------------------------------------------------------------ client routes
ClientBodies == [ratePerKm : {Absent} \cup {Some(r) : r \in Rates}]

\* POST /api/clients (isAdmin) -> storage.createClient
PostClient(actor, body) ==
    /\ nextClientId <= MaxClients
    /\ IF ~isAdmin(actor)
       THEN /\ resp' = Response("postClient", actor, 0, 403, {}, Null)
            /\ UNCHANGED << pending, users, clients, nextClientId, trips >>
       ELSE /\ clients' = [clients EXCEPT ![nextClientId] =
                  Some([ratePerKm |-> IF body.ratePerKm = Absent
                                      THEN DefaultRate
                                      ELSE body.ratePerKm[1]])]
            /\ nextClientId' = nextClientId + 1
            /\ resp' = Response("postClient", actor, nextClientId, 201, {}, Null)
            /\ UNCHANGED << pending, users, trips >>

\* storage.updateClient: the row after SET { ...clientData }
updateClient(id, body) ==
    IF getClient(id) = Null THEN clients
    ELSE [clients EXCEPT ![id] =
            Some([ratePerKm |-> IF body.ratePerKm = Absent
                                THEN clients[id][1].ratePerKm
                                ELSE body.ratePerKm[1]])]

\* PATCH /api/clients/:id (isAdmin) -> storage.updateClient
PatchClient(actor, id, body) ==
    IF ~isAdmin(actor)
    THEN /\ resp' = Response("patchClient", actor, id, 403, {}, Null)
         /\ UNCHANGED << pending, users, clients, nextClientId, trips >>
    ELSE /\ clients' = updateClient(id, body)
         /\ resp' = Response("patchClient", actor, id,
                             IF getClient(id) = Null THEN 404 ELSE 200,
                             {}, Null)
         /\ UNCHANGED << pending, users, nextClientId, trips >>

\* deleteClient without the count of referencing trips
deleteClientAlways(id) == TRUE

\* storage.deleteClient: false when a trip references the client
deleteClientOk(id) == \A t \in TripIds : trips[t].clientId # Some(id)

\* DELETE /api/clients/:id (isAdmin) -> storage.deleteClient
DeleteClient(actor, id) ==
    IF ~isAdmin(actor)
    THEN /\ resp' = Response("deleteClient", actor, id, 403, {}, Null)
         /\ UNCHANGED << pending, users, clients, nextClientId, trips >>
    ELSE IF ~deleteClientOk(id)
    THEN /\ resp' = Response("deleteClient", actor, id, 400, {}, Null)
         /\ UNCHANGED << pending, users, clients, nextClientId, trips >>
    ELSE /\ clients' = [clients EXCEPT ![id] = Null]
         /\ resp' = Response("deleteClient", actor, id, 204, {}, Null)
         /\ UNCHANGED << pending, users, nextClientId, trips >>

\* the foreign key declared ON DELETE CASCADE: the referencing trips go with
\* the client
clientFkOnDeleteCascade(id) ==
    [refused |-> FALSE,
     trips |-> SelectSeq(trips, LAMBDA t : t.clientId # Some(id))]

\* the clients table with no foreign key pointing at it
clientFkOnDeleteNone(id) == [refused |-> FALSE, trips |-> trips]

\* DELETE FROM clients WHERE id = id under the foreign key
\* trips.client_id -> clients.id, declared without onDelete (NO ACTION): the
\* statement is refused while a trip references the row, and no trip is touched
clientFkOnDelete(id) ==
    [refused |-> \E t \in TripIds : trips[t].clientId = Some(id),
     trips |-> trips]

\* DELETE /api/clients/:id up to storage.deleteClient's first await: isAdmin
\* and the count of the trips that reference the client; a request that finds
\* none is in flight until the DELETE runs
DeleteClientCount(actor, id) ==
    /\ pending[actor] = Null
    /\ IF ~isAdmin(actor)
       THEN /\ resp' = Response("deleteClient", actor, id, 403, {}, Null)
            /\ UNCHANGED pending
       ELSE IF ~deleteClientOk(id)
       THEN /\ resp' = Response("deleteClient", actor, id, 400, {}, Null)
            /\ UNCHANGED pending
       ELSE /\ pending' = [pending EXCEPT ![actor] =
                              Some([call |-> "deleteClient", stage |-> "count",
                                    id |-> id])]
            /\ UNCHANGED resp
    /\ UNCHANGED << users, clients, nextClientId, trips >>

\* DELETE /api/clients/:id from storage.deleteClient's DELETE on: a refused
\* statement throws and the route's catch answers 500
DeleteClientDelete(actor) ==
    /\ pending[actor] # Null /\ pending[actor][1].call = "deleteClient"
    /\ LET id == pending[actor][1].id
           deleted == clientFkOnDelete(id)
       IN IF deleted.refused
          THEN /\ resp' = Response("deleteClient", actor, id, 500, {}, Null)
               /\ UNCHANGED << clients, trips >>
          ELSE /\ clients' = [clients EXCEPT ![id] = Null]
               /\ trips' = deleted.trips
               /\ resp' = Response("deleteClient", actor, id, 204, {}, Null)
    /\ pending' = [pending EXCEPT ![actor] = Null]
    /\ UNCHANGED << users, nextClientId >>

\* -------------------------------------------------------------- trip reads
\* getTrips without the WHERE clause
getTripsAll(driverId) == TripIds

\* storage.getTrips(driverId): WHERE driver_id = driverId when driverId is truthy
getTrips(driverId) ==
    {t \in TripIds : driverId # Absent => trips[t].driverId = driverId[1]}

NoFilters ==
    [startDate |-> Absent, endDate |-> Absent, driverId |-> Absent,
     clientId |-> Absent, status |-> Absent, minDistance |-> Absent,
     maxDistance |-> Absent, limit |-> Absent]

\* if (filters?.x) on a number: undefined and 0 are both falsy (a Date object
\* and a non-empty string are truthy)
Truthy(f) == f # Absent /\ f[1] # 0

\* storage.getAllTrips: the AND of the conditions pushed
MatchesFilters(t, f) ==
    /\ f.startDate # Absent => trips[t].tripDate >= f.startDate[1]
    /\ f.endDate # Absent => trips[t].tripDate <= f.endDate[1]
    /\ f.driverId # Absent => trips[t].driverId = f.driverId[1]
    /\ Truthy(f.clientId) => trips[t].clientId = Some(f.clientId[1])
    /\ f.status # Absent => trips[t].status = f.status[1]
    /\ Truthy(f.minDistance) => trips[t].distanceKm >= f.minDistance[1]
    /\ Truthy(f.maxDistance) => trips[t].distanceKm <= f.maxDistance[1]

\* storage.getAllTrips: ORDER BY trip_date DESC LIMIT limit; rows of equal
\* trip_date come in any order, so every answer the database may give
getAllTrips(f) ==
    LET m == {t \in TripIds : MatchesFilters(t, f)}
    IN IF f.limit = Absent THEN {m}
       ELSE {s \in SUBSET m :
               /\ Cardinality(s) = IF Cardinality(m) < f.limit[1]
                                   THEN Cardinality(m) ELSE f.limit[1]
               /\ \A a \in s, b \in m \ s :
                     trips[a].tripDate >= trips[b].tripDate}

\* query strings of GET /api/trips
TripQueries ==
    [status : {Absent, Some("submitted")},
     limit : {Absent, Some(1)},
     driverId : {Absent, Some("d2")}]

\* the route using the filters for every request of an admin
useFiltersForAdmin(role, query) == role = "admin"

\* routes: if (user?.role === "admin" && (req.query.limit || req.query.status))
useFilters(role, query) ==
    role = "admin" /\ (query.limit # Absent \/ query.status # Absent)

\* GET /api/trips
GetTrips(actor, query) ==
    /\ IF useFilters(RoleOf(actor), query)
       THEN \E rows \in getAllTrips([NoFilters EXCEPT !.status = query.status,
                                                     !.limit = query.limit]) :
               resp' = [Response("getTrips", actor, 0, 200, rows, Null)
                           EXCEPT !.query = query]
       ELSE resp' = [Response("getTrips", actor, 0, 200,
                              getTrips(Some(actor)), Null)
                        EXCEPT !.query = query]
    /\ UNCHANGED << pending, users, clients, nextClientId, trips >>

\* query strings of GET /api/trips/all; a parameter is the value its text
\* denotes ("0" is 0), and any non-empty text is truthy in the route
QueryDates == {1, 2}

AllTripsQueries ==
    [startDate : {Absent, Some(2)},
     endDate : {Absent, Some(1)},
     driverId : {Absent, Some("d1")},
     clientId : {Absent, Some(1)},
     status : {Absent, Some("submitted")},
     minDistance : {Absent, Some(1500)},
     maxDistance : {Absent, Some(0), Some(1000)},
     limit : {Absent, Some(1)}]

\* GET /api/trips/all: the filters object built from req.query; limit is not
\* among the parameters the route reads
allTripsFilters(query) == [query EXCEPT !.limit = Absent]

\* GET /api/trips/all (isAdmin) -> storage.getAllTrips
GetAllTrips(actor, query) ==
    /\ IF ~isAdmin(actor)
       THEN resp' = Response("getAllTrips", actor, 0, 403, {}, Null)
       ELSE \E rows \in getAllTrips(allTripsFilters(query)) :
               resp' = Response("getAllTrips", actor, 0, 200, rows, Null)
    /\ UNCHANGED << pending, users, clients, nextClientId, trips >>

\* GET /api/trips/:id
GetTripById(actor, id) ==
    /\ LET trip == getTrip(id, ScopeOf(actor))
       IN resp' = Response("getTrip", actor, id,
                           IF trip = Null THEN 404 ELSE 200, {}, trip)
    /\ UNCHANGED << pending, users, clients, nextClientId, trips >>

\* ------------------------------------------------------------- trip writes
\* insertTripSchema.parse: distanceKm is a NOT NULL column without default;
\* costCalculated is omitted from the schema and stripped from the body
insertTripSchemaOk(body) == body.distanceKm # Absent

\* storage.createTrip: the row inserted for a validated body
createTrip(trip) ==
    LET clientId == Coalesce(trip.clientId, Null)
    IN TripRow(trip.driverId[1], clientId, trip.distanceKm[1],
               trip.tripDate[1],
               IF trip.status = Absent THEN "draft" ELSE trip.status[1],
               Null,
               CalcCost(clientId, trip.distanceKm[1]))

\* the route keeping the driverId of the body when it carries one
tripDataOfBody(body, userId) ==
    [body EXCEPT !.driverId = IF @ = Absent THEN Some(userId) ELSE @]

\* routes: const tripData = { ...req.body, driverId: userId, ... }
tripDataOf(body, userId) == [body EXCEPT !.driverId = Some(userId)]

\* POST /api/trips -> storage.createTrip
PostTrip(actor, body) ==
    /\ Len(trips) < MaxTrips
    /\ LET tripData == tripDataOf(body, actor)
       IN IF ~insertTripSchemaOk(tripData)
             \/ ~ClientFkOk(Coalesce(tripData.clientId, Null))
          THEN /\ resp' = [Response("postTrip", actor, 0, 400, {}, Null)
                              EXCEPT !.bodyDriverId = body.driverId,
                                     !.bodyCost = body.costCalculated]
               /\ UNCHANGED trips
          ELSE /\ trips' = Append(trips, createTrip(tripData))
               /\ resp' = [Response("postTrip", actor, Len(trips) + 1, 201,
                                    {}, Null)
                              EXCEPT !.bodyDriverId = body.driverId,
                                     !.bodyCost = body.costCalculated]
    /\ UNCHANGED << pending, users, clients, nextClientId >>

\* updateTrip computing the cost only when the payload carries distanceKm or
\* clientId
updateTripCostWhenChanged(existingTrip, tripData, driverId) ==
    LET sanitizedData == IF driverId # Absent
                           THEN [tripData EXCEPT !.driverId = Absent]
                           ELSE tripData
        clientId == Coalesce(sanitizedData.clientId, existingTrip.clientId)
        distance == IF sanitizedData.distanceKm = Absent
                    THEN existingTrip.distanceKm
                    ELSE sanitizedData.distanceKm[1]
        costCalculated == IF sanitizedData.clientId = Absent
                             /\ sanitizedData.distanceKm = Absent
                          THEN Absent ELSE CalcCost(clientId, distance)
        Set(field) == IF sanitizedData[field] = Absent
                      THEN existingTrip[field] ELSE sanitizedData[field][1]
    IN TripRow(Set("driverId"), Set("clientId"), Set("distanceKm"),
               Set("tripDate"), Set("status"), existingTrip.adminNotes,
               IF costCalculated = Absent THEN existingTrip.costCalculated
               ELSE costCalculated)

\* updateTrip without `delete sanitizedData.driverId`
updateTripKeepingDriverId(existingTrip, tripData, driverId) ==
    LET clientId == Coalesce(tripData.clientId, existingTrip.clientId)
        distance == IF tripData.distanceKm = Absent
                    THEN existingTrip.distanceKm
                    ELSE tripData.distanceKm[1]
        costCalculated == CalcCost(clientId, distance)
        Set(field) == IF tripData[field] = Absent
                      THEN existingTrip[field] ELSE tripData[field][1]
    IN TripRow(Set("driverId"), Set("clientId"), Set("distanceKm"),
               Set("tripDate"), Set("status"), existingTrip.adminNotes,
               IF costCalculated = Absent THEN existingTrip.costCalculated
               ELSE costCalculated)

\* storage.updateTrip: the row written by UPDATE ... SET; a key whose value
\* is undefined is left out of the SET clause
updateTrip(existingTrip, tripData, driverId) ==
    LET sanitizedData == IF driverId # Absent
                           THEN [tripData EXCEPT !.driverId = Absent]
                           ELSE tripData
        clientId == Coalesce(sanitizedData.clientId, existingTrip.clientId)
        distance == IF sanitizedData.distanceKm = Absent
                    THEN existingTrip.distanceKm
                    ELSE sanitizedData.distanceKm[1]
        costCalculated == CalcCost(clientId, distance)
        Set(field) == IF sanitizedData[field] = Absent
                      THEN existingTrip[field] ELSE sanitizedData[field][1]
    IN TripRow(Set("driverId"), Set("clientId"), Set("distanceKm"),
               Set("tripDate"), Set("status"), existingTrip.adminNotes,
               IF costCalculated = Absent THEN existingTrip.costCalculated
               ELSE costCalculated)

\* storage.updateTrip: UPDATE ... WHERE id = id [AND driver_id = driverId]
updateMatches(id, driverId) ==
    /\ id \in TripIds
    /\ (driverId # Absent => trips[id].driverId = driverId[1])

\* the route without its status check
canEditAlways(role, status) == TRUE

\* the route letting a driver edit drafts only
canEditDraftOnly(role, status) == role = "admin" \/ status = "draft"

\* the route applying the status check to every caller
canEditOpenOnly(role, status) == status \in {"draft", "submitted"}

\* routes: drivers can only edit draft or submitted trips
canEdit(role, status) == role = "admin" \/ status \in {"draft", "submitted"}

\* the request of a PATCH /api/trips/:id and the status code it is answered
PatchResponse(actor, id, code, body) ==
    [Response("patchTrip", actor, id, code, {}, Null)
        EXCEPT !.bodyDriverId = body.driverId,
               !.bodyCost = body.costCalculated]

\* the handler and the SET clause treating costCalculated as any other column
PatchTripTrustingCost(actor, id, body) ==
    /\ LET driverId == ScopeOf(actor)
           existingTrip == getTrip(id, driverId)
       IN IF existingTrip = Null
          THEN /\ resp' = PatchResponse(actor, id, 404, body)
               /\ UNCHANGED trips
          ELSE IF ~canEdit(RoleOf(actor), existingTrip[1].status)
          THEN /\ resp' = PatchResponse(actor, id, 403, body)
               /\ UNCHANGED trips
          ELSE LET computed == updateTrip(existingTrip[1], body, driverId)
                   updated == IF body.costCalculated = Absent THEN computed
                              ELSE [computed EXCEPT
                                      !.costCalculated = body.costCalculated[1]]
               IN IF ~ClientFkOk(updated.clientId)
                  THEN /\ resp' = PatchResponse(actor, id, 500, body)
                       /\ UNCHANGED trips
                  ELSE /\ trips' = [trips EXCEPT ![id] = updated]
                       /\ resp' = PatchResponse(actor, id, 200, body)
    /\ UNCHANGED << pending, users, clients, nextClientId >>

\* PATCH /api/trips/:id -> storage.updateTrip
PatchTrip(actor, id, body) ==
    /\ LET driverId == ScopeOf(actor)
           existingTrip == getTrip(id, driverId)
           validatedData == [body EXCEPT !.costCalculated = Absent]
       IN IF existingTrip = Null
          THEN /\ resp' = PatchResponse(actor, id, 404, body)
               /\ UNCHANGED trips
          ELSE IF ~canEdit(RoleOf(actor), existingTrip[1].status)
          THEN /\ resp' = PatchResponse(actor, id, 403, body)
               /\ UNCHANGED trips
          ELSE LET updated == updateTrip(existingTrip[1], validatedData, driverId)
               IN IF ~updateMatches(id, driverId)
                  THEN \* no row updated: res.json(undefined)
                       /\ resp' = PatchResponse(actor, id, 200, body)
                       /\ UNCHANGED trips
                  ELSE IF ~ClientFkOk(updated.clientId)
                  THEN /\ resp' = PatchResponse(actor, id, 500, body)
                       /\ UNCHANGED trips
                  ELSE /\ trips' = [trips EXCEPT ![id] = updated]
                       /\ resp' = PatchResponse(actor, id, 200, body)
    /\ UNCHANGED << pending, users, clients, nextClientId >>

\* PATCH /api/trips/:id up to its second await: the caller's scope, the trip
\* as storage.getTrip returns it and the status check; a request that passes
\* is in flight until storage.updateTrip runs
PatchTripCheck(actor, id, body) ==
    /\ pending[actor] = Null
    /\ LET driverId == ScopeOf(actor)
           existingTrip == getTrip(id, driverId)
       IN IF existingTrip = Null
          THEN /\ resp' = Response("patchTrip", actor, id, 404, {}, Null)
               /\ UNCHANGED pending
          ELSE IF ~canEdit(RoleOf(actor), existingTrip[1].status)
          THEN /\ resp' = Response("patchTrip", actor, id, 403, {}, Null)
               /\ UNCHANGED pending
          ELSE /\ pending' = [pending EXCEPT ![actor] =
                                 Some([call |-> "updateTrip", stage |-> "route",
                                       id |-> id, body |-> body])]
               /\ UNCHANGED resp
    /\ UNCHANGED << users, clients, nextClientId, trips >>

\* PATCH /api/trips/:id from storage.updateTrip on: the trip is read again, the
\* UPDATE is issued on the row as it is now, and the response is sent
PatchTripWrite(actor) ==
    /\ pending[actor] # Null
    /\ LET id == pending[actor][1].id
           driverId == ScopeOf(actor)
           validatedData == [pending[actor][1].body EXCEPT !.costCalculated = Absent]
       IN IF getTrip(id, driverId) = Null \/ ~updateMatches(id, driverId)
          THEN /\ resp' = Response("patchTrip", actor, id, 200, {}, Null)
               /\ UNCHANGED trips
          ELSE LET updated == updateTrip(trips[id], validatedData, driverId)
               IN IF ~ClientFkOk(updated.clientId)
                  THEN /\ resp' = Response("patchTrip", actor, id, 500, {}, Null)
                       /\ UNCHANGED trips
                  ELSE /\ trips' = [trips EXCEPT ![id] = updated]
                       /\ resp' = Response("patchTrip", actor, id, 200, {}, Null)
    /\ pending' = [pending EXCEPT ![actor] = Null]
    /\ UNCHANGED << users, clients, nextClientId >>

\* POST /api/trips up to storage.createTrip's INSERT: the body is parsed and
\* the cost is computed from the client row as getClient returns it now
CreateTripGetClient(actor, body) ==
    /\ pending[actor] = Null
    /\ Len(trips) < MaxTrips
    /\ LET tripData == tripDataOf(body, actor)
       IN IF ~insertTripSchemaOk(tripData)
          THEN /\ resp' = Response("postTrip", actor, 0, 400, {}, Null)
               /\ UNCHANGED pending
          ELSE /\ pending' = [pending EXCEPT ![actor] =
                                 Some([call |-> "createTrip", stage |-> "getClient",
                                       row |-> createTrip(tripData)])]
               /\ UNCHANGED resp
    /\ UNCHANGED << users, clients, nextClientId, trips >>

\* POST /api/trips from storage.createTrip's INSERT on: the foreign key is
\* checked against the clients table as it is now
CreateTripInsert(actor) ==
    /\ pending[actor] # Null /\ pending[actor][1].call = "createTrip"
    /\ LET row == pending[actor][1].row
       IN IF ~ClientFkOk(row.clientId)
          THEN /\ resp' = Response("postTrip", actor, 0, 400, {}, Null)
               /\ UNCHANGED trips
          ELSE /\ trips' = Append(trips, row)
               /\ resp' = Response("postTrip", actor, Len(trips) + 1, 201, {}, Null)
    /\ pending' = [pending EXCEPT ![actor] = Null]
    /\ UNCHANGED << users, clients, nextClientId >>

\* storage.updateTrip: const sanitizedData = { ...tripData }, without driverId
\* for a scoped caller
sanitizedDataOf(tripData, driverId) ==
    IF driverId # Absent THEN [tripData EXCEPT !.driverId = Absent] ELSE tripData

\* storage.updateTrip: the client and the distance the cost is computed from
updateTripClientId(existingTrip, sanitizedData) ==
    Coalesce(sanitizedData.clientId, existingTrip.clientId)

updateTripDistance(existingTrip, sanitizedData) ==
    IF sanitizedData.distanceKm = Absent THEN existingTrip.distanceKm
    ELSE sanitizedData.distanceKm[1]

\* storage.updateTrip: the row after UPDATE ... SET { ...sanitizedData,
\* costCalculated, updatedAt }: the columns of the payload and, when it is
\* defined, the cost; every other column stays as the row has it now
updateTripSet(row, sanitizedData, costCalculated) ==
    LET Set(field) == IF sanitizedData[field] = Absent
                      THEN row[field] ELSE sanitizedData[field][1]
    IN TripRow(Set("driverId"), Set("clientId"), Set("distanceKm"),
               Set("tripDate"), Set("status"), row.adminNotes,
               IF costCalculated = Absent THEN row.costCalculated
               ELSE costCalculated)

\* PATCH /api/trips/:id, storage.updateTrip's first await: the trip is read
\* again; undefined ends the request (res.json(undefined)); with no client id
\* to look up the cost stays undefined and the UPDATE is next
UpdateTripGetTrip(actor) ==
    /\ pending[actor] # Null /\ pending[actor][1].call = "updateTrip"
    /\ pending[actor][1].stage = "route"
    /\ LET id == pending[actor][1].id
           driverId == ScopeOf(actor)
           existingTrip == getTrip(id, driverId)
           validatedData == [pending[actor][1].body EXCEPT !.costCalculated = Absent]
           sanitizedData == sanitizedDataOf(validatedData, driverId)
       IN IF existingTrip = Null
          THEN /\ resp' = Response("patchTrip", actor, id, 200, {}, Null)
               /\ pending' = [pending EXCEPT ![actor] = Null]
          ELSE /\ pending' = [pending EXCEPT ![actor] =
                  Some([call |-> "updateTrip",
                        stage |-> IF updateTripClientId(existingTrip[1], sanitizedData) = Null
                                  THEN "getClient" ELSE "getTrip",
                        id |-> id, body |-> pending[actor][1].body,
                        existingTrip |-> existingTrip[1],
                        costCalculated |-> Absent])]
               /\ UNCHANGED resp
    /\ UNCHANGED << users, clients, nextClientId, trips >>

\* PATCH /api/trips/:id, storage.updateTrip's second await: the client is read
\* and the cost computed from the distance of the payload or of the trip as
\* it was read
UpdateTripGetClient(actor) ==
    /\ pending[actor] # Null /\ pending[actor][1].call = "updateTrip"
    /\ pending[actor][1].stage = "getTrip"
    /\ LET p == pending[actor][1]
           driverId == ScopeOf(actor)
           sanitizedData == sanitizedDataOf([p.body EXCEPT !.costCalculated = Absent],
                                            driverId)
       IN pending' = [pending EXCEPT ![actor] =
             Some([p EXCEPT !.stage = "getClient",
                            !.costCalculated =
                               CalcCost(updateTripClientId(p.existingTrip, sanitizedData),
                                        updateTripDistance(p.existingTrip, sanitizedData))])]
    /\ UNCHANGED << users, clients, nextClientId, trips, resp >>

\* PATCH /api/trips/:id, storage.updateTrip's UPDATE and the response: the SET
\* clause built from the earlier reads is applied to the row as it is now
UpdateTripUpdate(actor) ==
    /\ pending[actor] # Null /\ pending[actor][1].call = "updateTrip"
    /\ pending[actor][1].stage = "getClient"
    /\ LET p == pending[actor][1]
           id == p.id
           driverId == ScopeOf(actor)
           sanitizedData == sanitizedDataOf([p.body EXCEPT !.costCalculated = Absent],
                                            driverId)
       IN IF ~updateMatches(id, driverId)
          THEN /\ resp' = Response("patchTrip", actor, id, 200, {}, Null)
               /\ UNCHANGED trips
          ELSE LET updated == updateTripSet(trips[id], sanitizedData, p.costCalculated)
               IN IF ~ClientFkOk(updated.clientId)
                  THEN /\ resp' = Response("patchTrip", actor, id, 500, {}, Null)
                       /\ UNCHANGED trips
                  ELSE /\ trips' = [trips EXCEPT ![id] = updated]
                       /\ resp' = Response("patchTrip", actor, id, 200, {}, Null)
    /\ pending' = [pending EXCEPT ![actor] = Null]
    /\ UNCHANGED << users, clients, nextClientId >>

ReviewBodies ==
    [action : {"approve", "reject", "cancel"},
     adminNotes : {Absent} \cup {Some(Some(n)) : n \in NoteTexts}]

\* reviewTrip writing NULL for notes that were not supplied
reviewTripResetNotes(existingTrip, status, adminNotes) ==
    [existingTrip EXCEPT !.status = status,
                         !.adminNotes = IF adminNotes = Absent THEN Null
                                        ELSE adminNotes[1]]

\* storage.reviewTrip: the row written by UPDATE ... SET status, adminNotes
reviewTrip(existingTrip, status, adminNotes) ==
    [existingTrip EXCEPT !.status = status,
                         !.adminNotes = IF adminNotes = Absent THEN @
                                        ELSE adminNotes[1]]

\* PATCH /api/trips/:id/review (isAdmin) -> storage.reviewTrip
ReviewTrip(actor, id, body) ==
    /\ IF ~isAdmin(actor)
       THEN /\ resp' = Response("reviewTrip", actor, id, 403, {}, Null)
            /\ UNCHANGED trips
       ELSE IF body.action \notin {"approve", "reject"}
       THEN /\ resp' = Response("reviewTrip", actor, id, 400, {}, Null)
            /\ UNCHANGED trips
       ELSE IF id \notin TripIds
       THEN /\ resp' = Response("reviewTrip", actor, id, 404, {}, Null)
            /\ UNCHANGED trips
       ELSE LET status == IF body.action = "approve" THEN "approved"
                          ELSE "rejected"
                updated == reviewTrip(trips[id], status, body.adminNotes)
            IN /\ trips' = [trips EXCEPT ![id] = updated]
               /\ resp' = Response("reviewTrip", actor, id, 200, {},
                                   Null)
    /\ UNCHANGED << pending, users, clients, nextClientId >>

\* ------------------------------------------------------------ specification
\* Trip lifecycle: two drivers and the admin create, edit and review trips
\* without a client.  A driver's form posts distance, date and status; PATCH
\* bodies carry at most one field.
Drivers == {u \in UserIds : u # "a1"}

LifeBodies ==
    {b \in TripBodies : /\ b.clientId = Absent
                        /\ b.distanceKm \in {Absent, Some(1000), Some(1500)}
                        /\ b.driverId \in {Absent} \cup {Some(u) : u \in Drivers}}

PostBodies ==
    {b \in LifeBodies : /\ b.tripDate # Absent
                        /\ b.distanceKm \in {Absent, Some(1000)}
                        /\ b.costCalculated = Absent
                        /\ Cardinality(Supplied(b) \ {"tripDate", "distanceKm"}) <= 1}

PatchBodies == {b \in LifeBodies : OneField(b)}

Next ==
    \/ \E actor \in Drivers, body \in PostBodies :
          Len(trips) < MaxLifeTrips /\ PostTrip(actor, body)
    \/ \E actor \in UserIds, id \in 1..MaxLifeTrips, body \in PatchBodies :
          PatchTrip(actor, id, body)
    \/ \E actor \in UserIds, id \in 1..MaxLifeTrips, body \in ReviewBodies :
          ReviewTrip(actor, id, body)

Spec == Init /\ [][Next]_vars

\* Access scoping: two drivers and the admin read and write several trips;
\* bodies carry an owner or a status, reviews carry no note.
AccessPostBodies ==
    {b \in PostBodies : b.distanceKm # Absent /\ b.status \in {Absent, Some("submitted")}}

AccessPatchBodies ==
    {b \in PatchBodies : Supplied(b) \subseteq {"status", "driverId"}}

AccessReviewBodies ==
    {b \in ReviewBodies : b.action # "cancel" /\ b.adminNotes = Absent}

NextAccess ==
    \/ \E actor \in UserIds, query \in TripQueries : GetTrips(actor, query)
    \/ \E actor \in UserIds, id \in TripIdInputs : GetTripById(actor, id)
    \/ \E actor \in Drivers, body \in AccessPostBodies : PostTrip(actor, body)
    \/ \E actor \in UserIds, id \in TripIdInputs, body \in AccessPatchBodies :
          PatchTrip(actor, id, body)
    \/ \E actor \in UserIds, id \in TripIdInputs, body \in AccessReviewBodies :
          ReviewTrip(actor, id, body)

SpecAccess == Init /\ [][NextAccess]_vars

\* Cost calculation: one driver and the admin; the admin maintains clients
\* and their rates, trips stay in draft and carry a client and a distance.
CostActors == {"d1", "a1"}

CostBodies ==
    {b \in TripBodies : /\ b.status = Absent /\ b.driverId = Absent
                        /\ b.costCalculated = Absent}

CostPostBodies ==
    {b \in CostBodies : b.tripDate # Absent /\ b.distanceKm # Absent}

CostPatchBodies ==
    {b \in CostBodies : /\ b.tripDate = Absent
                        /\ Supplied(b) \subseteq {"clientId", "distanceKm"}}

NextCost ==
    \/ \E body \in ClientBodies : PostClient("a1", body)
    \/ \E id \in ClientIds, body \in ClientBodies : PatchClient("a1", id, body)
    \/ \E id \in ClientIds : DeleteClient("a1", id)
    \/ \E body \in CostPostBodies :
          Len(trips) < MaxCostTrips /\ PostTrip("d1", body)
    \/ \E actor \in CostActors, id \in 1..MaxCostTrips, body \in CostPatchBodies :
          PatchTrip(actor, id, body)

SpecCost == Init /\ [][NextCost]_vars

\* Cost refresh: the admin creates clients and raises their rate, the driver
\* posts trips for the first client or for none and edits them, also with a
\* payload that carries neither a distance nor a client, or a cost of the
\* caller's own.
RefreshPostBodies ==
    {[NoBody EXCEPT !.clientId = c, !.distanceKm = Some(1000), !.tripDate = Some(1),
                    !.costCalculated = cost] :
        c \in {Absent, Some(Some(1))}, cost \in {Absent, Some(Some(99999))}}

RefreshPatchBodies ==
    {NoBody, [NoBody EXCEPT !.tripDate = Some(1)],
     [NoBody EXCEPT !.distanceKm = Some(1500)],
     [NoBody EXCEPT !.clientId = Some(Null)],
     [NoBody EXCEPT !.clientId = Some(Some(1))],
     [NoBody EXCEPT !.costCalculated = Some(Some(99999))],
     [NoBody EXCEPT !.distanceKm = Some(1500),
                    !.costCalculated = Some(Some(99999))]}

NextRefresh ==
    \/ PostClient("a1", [ratePerKm |-> Absent])
    \/ \E id \in ClientIds : PatchClient("a1", id, [ratePerKm |-> Some(200)])
    \/ \E body \in RefreshPostBodies :
          Len(trips) < MaxCostTrips /\ PostTrip("d1", body)
    \/ \E id \in 1..MaxCostTrips, body \in RefreshPatchBodies :
          PatchTrip("d1", id, body)

SpecRefresh == Init /\ [][NextRefresh]_vars

\* Reporting: the admin creates a client, the drivers post trips of several
\* dates, distances and statuses, and the trips are listed with filters.
QueryPostBodies ==
    {[NoBody EXCEPT !.clientId = c, !.distanceKm = Some(500 + 500 * day),
                    !.tripDate = Some(day), !.status = st] :
        c \in {Absent, Some(Some(1))}, day \in QueryDates,
        st \in {Absent, Some("submitted")}}

NextQuery ==
    \/ PostClient("a1", [ratePerKm |-> Absent])
    \/ \E actor \in Drivers, body \in QueryPostBodies : PostTrip(actor, body)
    \/ \E actor \in CostActors, query \in AllTripsQueries :
          GetAllTrips(actor, query)

SpecQuery == Init /\ [][NextQuery]_vars

\* Profiles: every user edits their own profile, and creates a client if the
\* role allows it.
NextProfile ==
    \/ \E actor \in UserIds, body \in ProfileBodies : PatchProfile(actor, body)
    \/ \E actor \in UserIds : PostClient(actor, [ratePerKm |-> Absent])

SpecProfile == Init /\ [][NextProfile]_vars

\* Concurrent requests: a driver's PATCH is served in two steps, between
\* which the admin's review of the same trip may be served.
RacePatchBodies ==
    {b \in PatchBodies : Supplied(b) \subseteq {"status", "distanceKm"}}

NextRace ==
    \/ \E actor \in Drivers, body \in AccessPostBodies :
          Len(trips) < MaxLifeTrips /\ PostTrip(actor, body)
    \/ \E actor \in Drivers, id \in 1..MaxLifeTrips, body \in RacePatchBodies :
          PatchTripCheck(actor, id, body)
    \/ \E actor \in Drivers : PatchTripWrite(actor)
    \/ \E id \in 1..MaxLifeTrips, body \in AccessReviewBodies :
          ReviewTrip("a1", id, body)

SpecRace == Init /\ [][NextRace]_vars

\* Client administration: the driver and the admin call the client routes;
\* the driver's trips name a client, which may not exist, and carry a distance
\* of either sign.
SignedDistances == {1000, -500}

ClientsPostBodies ==
    {[NoBody EXCEPT !.clientId = c, !.distanceKm = Some(d), !.tripDate = Some(1)] :
        c \in {Absent} \cup {Some(Some(k)) : k \in ClientIds},
        d \in SignedDistances}

ClientsPatchBodies ==
    {[NoBody EXCEPT !.clientId = Some(Some(k))] : k \in ClientIds}
        \cup {[NoBody EXCEPT !.distanceKm = Some(d)] :
                 d \in {n \in SignedDistances : n < 0}}

NextClients ==
    \/ \E actor \in CostActors : PostClient(actor, [ratePerKm |-> Absent])
    \/ \E actor \in CostActors, id \in ClientIds, body \in ClientBodies :
          PatchClient(actor, id, body)
    \/ \E actor \in CostActors, id \in ClientIds : DeleteClient(actor, id)
    \/ \E body \in ClientsPostBodies :
          Len(trips) < MaxCostTrips /\ PostTrip("d1", body)
    \/ \E actor \in CostActors, id \in 1..MaxCostTrips, body \in ClientsPatchBodies :
          PatchTrip(actor, id, body)

SpecClients == Init /\ [][NextClients]_vars

\* Concurrent updates: the admin creates two clients, each with one of two
\* rates, the driver then posts a trip for the first one, and the owner's and the admin's
\* PATCH of the trip, one with a distance and one with the other client, are
\* served await by await.
UpdatesClientBodies == {[ratePerKm |-> Some(r)] : r \in {150, 200}}

UpdatesPostBodies ==
    {[NoBody EXCEPT !.clientId = Some(Some(1)), !.distanceKm = Some(1000),
                    !.tripDate = Some(1)]}

UpdatesPatchBodies ==
    {[NoBody EXCEPT !.distanceKm = Some(1500)],
     [NoBody EXCEPT !.clientId = Some(Some(2))]}

NextUpdates ==
    \/ \E body \in UpdatesClientBodies : trips = << >> /\ PostClient("a1", body)
    \/ \E body \in UpdatesPostBodies :
          Len(trips) < MaxCostTrips /\ PostTrip("d1", body)
    \/ \E actor \in CostActors, id \in 1..MaxCostTrips, body \in UpdatesPatchBodies :
          PatchTripCheck(actor, id, body)
    \/ \E actor \in CostActors : UpdateTripGetTrip(actor)
    \/ \E actor \in CostActors : UpdateTripGetClient(actor)
    \/ \E actor \in CostActors : UpdateTripUpdate(actor)

SpecUpdates == Init /\ [][NextUpdates]_vars

\* Client deletion against trip writes, served await by await: the admin
\* creates and deletes clients, the driver posts a trip for a client and moves
\* it to another client.
IntegrityPostBodies ==
    {[NoBody EXCEPT !.clientId = Some(Some(k)), !.distanceKm = Some(1000),
                    !.tripDate = Some(1)] : k \in ClientIds}

IntegrityPatchBodies ==
    {[NoBody EXCEPT !.clientId = Some(Some(k))] : k \in ClientIds}

IntegrityProfileBodies ==
    {b \in ProfileBodies : b.firstName = Absent /\ b.lastName = Absent
                              /\ b.role = Absent /\ b.vehicleName # Absent}

NextIntegrity ==
    \/ PostClient("a1", [ratePerKm |-> Absent])
    \/ \E id \in ClientIds : DeleteClientCount("a1", id)
    \/ DeleteClientDelete("a1")
    \/ \E body \in IntegrityPostBodies :
          Len(trips) < MaxCostTrips /\ CreateTripGetClient("d1", body)
    \/ CreateTripInsert("d1")
    \/ \E id \in 1..MaxCostTrips, body \in IntegrityPatchBodies :
          PatchTripCheck("d1", id, body)
    \/ UpdateTripGetTrip("d1")
    \/ UpdateTripGetClient("d1")
    \/ UpdateTripUpdate("d1")

SpecIntegrity == Init /\ [][NextIntegrity]_vars

\* The whole write API: the admin creates, re-rates and deletes clients (the
\* deletion served await by await) and reviews trips; the driver posts a trip
\* for a client, moves it to another client and edits their profile.
NextApi ==
    \/ PostClient("a1", [ratePerKm |-> Absent])
    \/ \E id \in ClientIds : PatchClient("a1", id, [ratePerKm |-> Some(200)])
    \/ \E id \in ClientIds : DeleteClientCount("a1", id)
    \/ DeleteClientDelete("a1")
    \/ \E body \in IntegrityPostBodies :
          Len(trips) < MaxCostTrips /\ PostTrip("d1", body)
    \/ \E id \in 1..MaxCostTrips, body \in IntegrityPatchBodies :
          PatchTrip("d1", id, body)
    \/ \E id \in 1..MaxCostTrips :
          ReviewTrip("a1", id, [action |-> "approve", adminNotes |-> Absent])
    \/ \E body \in IntegrityProfileBodies : PatchProfile("d1", body)

SpecApi == Init /\ [][NextApi]_vars

\* ======================================================== cost (SpecCost)
\* round(distance * rate, 2), half up, on the exact decimal product
Round2(distance, rate) == (distance * rate + 50) \div 100

Resolvable(trip) == trip.clientId # Null /\ getClient(trip.clientId[1]) # Null

RateOf(trip) == getClient(trip.clientId[1])[1].ratePerKm

\* C1: after every createTrip, and after every updateTrip whose payload
\* supplies distanceKm and/or clientId, a trip whose resulting clientId refers
\* to an existing client has costCalculated = round(distanceKm * ratePerKm, 2).
C1_CostIsRoundedProduct ==
    [][ /\ \A body \in CostPostBodies :
              (PostTrip("d1", body) /\ resp'.code = 201
                 /\ Resolvable(trips'[resp'.id]))
              => trips'[resp'.id].costCalculated =
                   Some(Round2(trips'[resp'.id].distanceKm,
                               RateOf(trips'[resp'.id])))
        /\ \A actor \in CostActors, id \in TripIds, body \in CostPatchBodies :
              (PatchTrip(actor, id, body) /\ resp'.code = 200
                 /\ Supplied(body) # {}
                 /\ Resolvable(trips'[id]))
              => trips'[id].costCalculated =
                   Some(Round2(trips'[id].distanceKm, RateOf(trips'[id]))) ]_vars

\* the stored cost is the product distance * rate to within half a cent,
\* whichever way the midpoint is rounded
IsProduct(cost, distance, rate) ==
    cost # Null /\ (cost[1] * 100 - distance * rate) \in -50..50

\* C2 (first half): in every reachable state every trip whose clientId refers
\* to an existing client has costCalculated equal to its distanceKm times that
\* client's current ratePerKm.
C2_CostTracksCurrentRate ==
    \A t \in TripIds :
        Resolvable(trips[t]) =>
            IsProduct(trips[t].costCalculated, trips[t].distanceKm,
                      RateOf(trips[t]))

\* C3: when a PATCH with clientId null removes the client from a trip that had
\* a client and a computed cost, costCalculated is undefined afterwards.
C3_RemovedClientClearsCost ==
    [][ \A actor \in CostActors, id \in TripIds, body \in CostPatchBodies :
           (/\ PatchTrip(actor, id, body) /\ resp'.code = 200
            /\ body.clientId = Some(Null)
            /\ trips[id].clientId # Null /\ trips[id].costCalculated # Null)
           => trips'[id].costCalculated = Null ]_vars

\* ================================= lifecycle (Spec) and access (SpecAccess)
Open == {"draft", "submitted"}
Processed == {"approved", "rejected"}

IsDriver(u) == RoleOf(u) = "driver"

\* the step is a request of route op on an existing trip
OnTrip(op) == resp'.op = op /\ resp'.id \in TripIds

\* C4: a PATCH /trips/:id by the owning driver on a trip in draft or
\* submitted, with any body, leaves the trip's status in {draft, submitted}.
C4_DriverPatchStaysOpen ==
    [][ (/\ OnTrip("patchTrip") /\ IsDriver(resp'.actor)
         /\ trips[resp'.id].driverId = resp'.actor
         /\ trips[resp'.id].status \in Open)
        => trips'[resp'.id].status \in Open ]_vars

\* C5: a PATCH /trips/:id by the owning driver on an approved or rejected trip
\* is answered 403 and changes no trip; on a draft or submitted trip of the
\* driver's own it succeeds.
C5_ProcessedTripIsReadOnlyForDriver ==
    [][ (/\ OnTrip("patchTrip") /\ IsDriver(resp'.actor)
         /\ trips[resp'.id].driverId = resp'.actor)
        => IF trips[resp'.id].status \in Processed
           THEN resp'.code = 403 /\ trips' = trips
           ELSE resp'.code = 200 ]_vars

\* the end of the scenario: a trip that was created, edited (its distance is
\* not the one any POST body carries), reviewed by the admin with a note and
\* approved; its owner's PATCH has just been refused
C5_Witness ==
    /\ resp.op = "patchTrip" /\ resp.code = 403 /\ resp.id \in TripIds
    /\ IsDriver(resp.actor)
    /\ trips[resp.id] = TripRow(resp.actor, Null, 1500, 1, "approved",
                                Some("n1"), Null)

\* C6: every trip created through POST /trips has initial status draft or
\* submitted.
C6_CreatedOpen ==
    (resp.op = "postTrip" /\ resp.code = 201)
        => trips[resp.id].status \in Open

\* C7: a review of a trip whose status is not submitted is refused and leaves
\* status and adminNotes unchanged; approved and rejected are entered by a
\* review only from submitted.
C7_ReviewOnlyFromSubmitted ==
    [][ (/\ OnTrip("reviewTrip") /\ isAdmin(resp'.actor)
         /\ trips[resp'.id].status # "submitted")
        => /\ resp'.code # 200
           /\ trips'[resp'.id].status = trips[resp'.id].status
           /\ trips'[resp'.id].adminNotes = trips[resp'.id].adminNotes ]_vars

\* C8: for a driver, GET /trips returns only trips whose driverId is the
\* driver's own id, whatever the query string.
C8_DriverListsOwnTrips ==
    (resp.op = "getTrips" /\ IsDriver(resp.actor))
        => \A t \in resp.list : t \in TripIds /\ trips[t].driverId = resp.actor

\* a driver asked for another driver's submitted trips, limited to one: the
\* answer holds the driver's own trip and not the other driver's
C8_Witness ==
    /\ resp.op = "getTrips" /\ IsDriver(resp.actor)
    /\ resp.query = [status |-> Some("submitted"), limit |-> Some(1),
                     driverId |-> Some("d2")]
    /\ resp.actor # "d2"
    /\ resp.list # {}
    /\ \E t \in TripIds : trips[t].driverId = "d2" /\ trips[t].status = "submitted"

\* C9: a PATCH /trips/:id by a driver who does not own the trip is answered
\* 404, and no request of a driver changes a trip of another owner.
C9_OtherDriversTripsUntouched ==
    [][ /\ (/\ OnTrip("patchTrip") /\ IsDriver(resp'.actor)
            /\ trips[resp'.id].driverId # resp'.actor)
           => resp'.code = 404 /\ trips' = trips
        /\ IsDriver(resp'.actor)
           => \A t \in TripIds :
                 trips[t].driverId # resp'.actor
                    => t <= Len(trips') /\ trips'[t] = trips[t] ]_vars

C9_Witness ==
    /\ resp.op = "patchTrip" /\ resp.code = 404 /\ resp.id \in TripIds
    /\ IsDriver(resp.actor)
    /\ trips[resp.id].driverId # resp.actor
    /\ IsDriver(trips[resp.id].driverId)
    /\ trips[resp.id].status = "draft"

\* C10: for a driver, GET /trips/:id of a trip owned by someone else is
\* answered exactly like an id that names no trip: 404 and no row.
C10_ForeignTripIsNotFound ==
    (resp.op = "getTrip" /\ IsDriver(resp.actor))
        => /\ (resp.id \notin TripIds) => (resp.code = 404 /\ resp.row = Null)
           /\ (resp.id \in TripIds /\ trips[resp.id].driverId # resp.actor)
                 => (resp.code = 404 /\ resp.row = Null)

C10_Witness ==
    /\ resp.op = "getTrip" /\ IsDriver(resp.actor)
    /\ resp.id \in TripIds /\ trips[resp.id].driverId # resp.actor
    /\ resp.code = 404

\* =========================================== client records (SpecClients)
References(t, id) == trips[t].clientId = Some(id)

\* C11: deleteClient on a client that a trip references is refused with the
\* has-dependents answer and changes neither the clients nor the trips; a
\* client row disappears only when no trip references it.
C11_ReferencedClientIsKept ==
    [][ /\ (/\ resp'.op = "deleteClient" /\ isAdmin(resp'.actor)
            /\ \E t \in TripIds : References(t, resp'.id))
           => resp'.code = 400 /\ clients' = clients /\ trips' = trips
        /\ \A c \in ClientIds :
              (clients[c] # Null /\ clients'[c] = Null)
                 => \A t \in TripIds : ~References(t, c) ]_vars

C11_Witness ==
    /\ resp.op = "deleteClient" /\ resp.code = 400 /\ isAdmin(resp.actor)
    /\ clients[resp.id] # Null
    /\ \E t \in TripIds : References(t, resp.id)

\* C13: no stored trip has distanceKm < 0 (a create or update that carries a
\* negative distance is refused).
C13_NoNegativeDistance == \A t \in TripIds : trips[t].distanceKm >= 0

ClientOps == {"postClient", "patchClient", "deleteClient"}

\* C14: every POST, PATCH or DELETE on /api/clients by a driver is answered
\* 403 and leaves the clients table, every rate included, unchanged.
C14_ClientWritesAreAdminOnly ==
    [][ (resp'.op \in ClientOps /\ IsDriver(resp'.actor))
        => /\ resp'.code = 403
           /\ clients' = clients /\ nextClientId' = nextClientId ]_vars

\* the driver asked to delete an existing client that no trip references and
\* whose rate the admin had changed from the default
C14_Witness ==
    /\ resp.op = "deleteClient" /\ resp.code = 403 /\ IsDriver(resp.actor)
    /\ clients[resp.id] # Null /\ clients[resp.id][1].ratePerKm # DefaultRate
    /\ deleteClientOk(resp.id)

\* the body names a client and the clients table has no such row
Dangling(clientId) ==
    /\ clientId # Absent /\ clientId # Some(Null)
    /\ getClient(clientId[1][1]) = Null

\* C18 as stated: creating or updating a trip whose clientId names no existing
\* client succeeds, the trip is stored with that clientId and its
\* costCalculated is undefined.
C18_DanglingClientIsAccepted ==
    [][ /\ \A body \in ClientsPostBodies :
              (PostTrip("d1", body) /\ Dangling(body.clientId))
                 => /\ resp'.code = 201
                    /\ trips'[resp'.id].clientId = body.clientId[1]
                    /\ trips'[resp'.id].costCalculated = Null
        /\ \A actor \in CostActors, id \in TripIds, body \in ClientsPatchBodies :
              (PatchTrip(actor, id, body) /\ Dangling(body.clientId))
                 => /\ resp'.code = 200
                    /\ trips'[id].clientId = body.clientId[1] ]_vars

\* C18 amended: such a create is answered 400 and such an update of a trip the
\* caller may edit 500, the trips are unchanged, and every stored trip's
\* clientId is null or names an existing client.
C18_DanglingClientIsRefused ==
    [][ /\ resp'.op = "postTrip" =>
              \A body \in ClientsPostBodies :
                 (Dangling(body.clientId) /\ PostTrip("d1", body))
                    => resp'.code = 400 /\ trips' = trips
        /\ (resp'.op = "patchTrip" /\ resp'.id \in TripIds) =>
              \A body \in ClientsPatchBodies :
                 (Dangling(body.clientId) /\ PatchTrip(resp'.actor, resp'.id, body))
                    => resp'.code = 500 /\ trips' = trips
        /\ \A t \in 1..Len(trips') :
              trips'[t].clientId # Null => clients'[trips'[t].clientId[1]] # Null ]_vars

\* an update that named a missing client was refused on a trip that keeps the
\* existing client it had
C18_Witness ==
    /\ resp.op = "patchTrip" /\ resp.code = 500 /\ resp.id \in TripIds
    /\ trips[resp.id].clientId # Null
    /\ getClient(trips[resp.id].clientId[1]) # Null
    /\ \E c \in ClientIds : clients[c] = Null

\* ================================================== reporting (SpecQuery)
\* trip t satisfies every filter the query supplies
Satisfies(t, q) ==
    /\ q.startDate # Absent => trips[t].tripDate >= q.startDate[1]
    /\ q.endDate # Absent => trips[t].tripDate <= q.endDate[1]
    /\ q.driverId # Absent => trips[t].driverId = q.driverId[1]
    /\ q.clientId # Absent => trips[t].clientId = Some(q.clientId[1])
    /\ q.status # Absent => trips[t].status = q.status[1]
    /\ q.minDistance # Absent => trips[t].distanceKm >= q.minDistance[1]
    /\ q.maxDistance # Absent => trips[t].distanceKm <= q.maxDistance[1]

\* C15: for an admin, GET /trips/all returns exactly the trips that satisfy
\* every supplied filter at once, for every combination of filters and every
\* filter value, a distance bound of 0 included.
C15_FiltersAreConjoined ==
    [][ resp'.op = "getAllTrips" =>
        \A q \in AllTripsQueries :
           (q.limit = Absent /\ GetAllTrips("a1", q))
              => resp'.list = {t \in TripIds : Satisfies(t, q)} ]_vars

\* C16: with limit = n supplied, the answer of GET /trips/all holds at most n
\* trips, those of the latest tripDate among the trips matching the other
\* filters.
C16_LimitIsHonoured ==
    [][ resp'.op = "getAllTrips" =>
        \A q \in AllTripsQueries :
           (q.limit # Absent /\ GetAllTrips("a1", q))
              => /\ Cardinality(resp'.list) <= q.limit[1]
                 /\ \A a \in resp'.list :
                       \A b \in {t \in TripIds : Satisfies(t, q)} \ resp'.list :
                          trips[a].tripDate >= trips[b].tripDate ]_vars

\* ============================================ ownership and review (Spec)
\* C17: every trip created through POST /trips has driverId equal to the id of
\* the authenticated caller, whatever driverId the request body carries.
C17_CreatedTripIsOwnedByCaller ==
    (resp.op = "postTrip" /\ resp.code = 201)
        => trips[resp.id].driverId = resp.actor

\* a driver posted a trip in another driver's name
C17_Witness ==
    /\ resp.op = "postTrip" /\ resp.code = 201
    /\ resp.bodyDriverId # Absent /\ resp.bodyDriverId # Some(resp.actor)
    /\ trips[resp.id].driverId = resp.actor

\* C20: a review issued by a driver, the trip's owner included, is answered
\* 403, a review by the admin whose action is neither approve nor reject is
\* answered 400, and neither changes any trip.
C20_ReviewIsAdminOnly ==
    [][ resp'.op = "reviewTrip" =>
        \A body \in ReviewBodies :
           ReviewTrip(resp'.actor, resp'.id, body)
              => /\ IsDriver(resp'.actor) => (resp'.code = 403 /\ trips' = trips)
                 /\ (isAdmin(resp'.actor) /\ body.action \notin {"approve", "reject"})
                       => (resp'.code = 400 /\ trips' = trips) ]_vars

\* the owner of a submitted trip tried to review it
C20_Witness ==
    /\ resp.op = "reviewTrip" /\ resp.code = 403 /\ resp.id \in TripIds
    /\ trips[resp.id].driverId = resp.actor
    /\ trips[resp.id].status = "submitted"

\* ================================================== profiles (SpecProfile)
\* C19: no request changes a user's role; in particular after any sequence of
\* PATCH /api/user/profile requests, whatever their bodies, every user's role
\* is what it was.
C19_RoleIsImmutable ==
    [][ \A u \in UserIds : users'[u].role = users[u].role ]_vars

\* a driver sent a profile with role admin: the name was taken, the role not
C19_Witness ==
    /\ resp.op = "patchProfile" /\ resp.bodyRole = Some("admin")
    /\ users[resp.actor].firstName = Some("F")
    /\ users[resp.actor].role = "driver"

\* ========================================= concurrent requests (SpecRace)
\* C12: when a driver's PATCH /trips/:id and the admin's review of the same
\* trip are served concurrently, the driver's write is never applied to a trip
\* that is approved or rejected at the moment of the write, so the admin's
\* decision is never overwritten by the driver's payload.
C12_DriverWriteNeverHitsProcessedTrip ==
    [][ \A actor \in Drivers :
           (/\ pending[actor] # Null /\ pending'[actor] = Null
            /\ resp'.code = 200 /\ resp'.id \in TripIds)
           => trips[resp'.id].status \in Open ]_vars

\* ================================================ status transitions (Spec)
\* C22: a PATCH with status submitted on the driver's own draft trip succeeds
\* and sets status submitted, and a PATCH with status draft on the driver's
\* own submitted trip succeeds and sets status back to draft.
C22_DraftAndSubmittedAreMutuallyReachable ==
    [][ (/\ OnTrip("patchTrip") /\ IsDriver(resp'.actor)
         /\ trips[resp'.id].driverId = resp'.actor
         /\ trips[resp'.id].status \in Open)
        => \A st \in Open :
              PatchTrip(resp'.actor, resp'.id, [NoBody EXCEPT !.status = Some(st)])
                 => resp'.code = 200 /\ trips'[resp'.id].status = st ]_vars

\* the owner's PATCH succeeded and the trip is a draft again
C22_Witness ==
    /\ resp.op = "patchTrip" /\ resp.code = 200 /\ resp.id \in TripIds
    /\ IsDriver(resp.actor) /\ trips[resp.id].driverId = resp.actor
    /\ trips[resp.id].status = "draft"

EditableFields == {"distanceKm", "tripDate", "status", "driverId"}

\* the values the bodies of PatchBodies carry in an editable field
EditableValues(f) ==
    CASE f = "distanceKm" -> {1000, 1500}
      [] f = "tripDate" -> Dates
      [] f = "status" -> Statuses
      [] f = "driverId" -> Drivers

\* C23: an admin's PATCH /trips/:id on a trip in any status, approved and
\* rejected included, succeeds and applies the supplied fields.
C23_AdminEditsInEveryStatus ==
    [][ (OnTrip("patchTrip") /\ isAdmin(resp'.actor))
        => /\ resp'.code = 200
           /\ \A f \in EditableFields :
                 \A v \in EditableValues(f) :
                    PatchTrip(resp'.actor, resp'.id, [NoBody EXCEPT ![f] = Some(v)])
                       => trips'[resp'.id][f] = v ]_vars

\* the admin's PATCH succeeded on a trip that had been reviewed with a note
\* and is approved
C23_Witness ==
    /\ resp.op = "patchTrip" /\ resp.code = 200 /\ resp.id \in TripIds
    /\ isAdmin(resp.actor)
    /\ trips[resp.id].status = "approved"
    /\ trips[resp.id].adminNotes = Some("n1")
    /\ trips[resp.id].distanceKm = 1500

C27_DriverNeverReassignsTrip ==
    [][ /\ (OnTrip("patchTrip") /\ IsDriver(resp'.actor))
           => trips'[resp'.id].driverId = trips[resp'.id].driverId
        /\ \A t \in TripIds :
              trips'[t].driverId # trips[t].driverId
                 => (resp'.op = "patchTrip" /\ resp'.id = t /\ isAdmin(resp'.actor)) ]_vars

\* the owner's PATCH named another driver and succeeded: the trip is still
\* the owner's
C27_Witness ==
    /\ resp.op = "patchTrip" /\ resp.code = 200 /\ resp.id \in TripIds
    /\ IsDriver(resp.actor)
    /\ resp.bodyDriverId # Absent /\ resp.bodyDriverId # Some(resp.actor)
    /\ trips[resp.id].driverId = resp.actor

\* C29: for an admin, GET /trips returns the trips of all drivers, filtered
\* only by status and limit, when the request carries a status or a limit,
\* and otherwise only the trips whose driverId is the admin's own id.
C29_AdminListing ==
    (resp.op = "getTrips" /\ isAdmin(resp.actor))
        => LET q == resp.query
               m == {t \in TripIds :
                        q.status # Absent => trips[t].status = q.status[1]}
           IN IF q.status # Absent \/ q.limit # Absent
              THEN /\ resp.list \subseteq m
                   /\ q.limit = Absent => resp.list = m
                   /\ q.limit # Absent =>
                         Cardinality(resp.list) =
                            IF Cardinality(m) < q.limit[1] THEN Cardinality(m)
                            ELSE q.limit[1]
              ELSE resp.list = {t \in TripIds : trips[t].driverId = resp.actor}

\* the admin asked for the submitted trips and got those of two drivers
C29_Witness ==
    /\ resp.op = "getTrips" /\ isAdmin(resp.actor)
    /\ resp.query.status = Some("submitted") /\ resp.query.limit = Absent
    /\ \E a, b \in resp.list : trips[a].driverId # trips[b].driverId

\* ============================================= cost refresh (SpecRefresh)
\* the client an update computes the cost from: the payload's, else the one
\* the trip had
CostClientOf(before, after) ==
    IF after.clientId # Null THEN after.clientId ELSE before.clientId

\* C30: every updateTrip on a trip that has an existing client rewrites
\* costCalculated to the stored distance times the client's current rate,
\* also when the payload changes neither distanceKm nor clientId; an
\* updateTrip on a trip with no resolvable client leaves costCalculated as it
\* was.
C30_UpdateRefreshesCost ==
    [][ (OnTrip("patchTrip") /\ resp'.code = 200)
        => LET before == trips[resp'.id]
               after == trips'[resp'.id]
               clientId == CostClientOf(before, after)
           IN /\ (clientId # Null /\ getClient(clientId[1]) # Null)
                    => IsProduct(after.costCalculated, after.distanceKm,
                                 getClient(clientId[1])[1].ratePerKm)
              /\ (clientId = Null \/ getClient(clientId[1]) = Null)
                    => after.costCalculated = before.costCalculated
              /\ PatchTrip(resp'.actor, resp'.id, NoBody)
                    => (Resolvable(before)
                           => IsProduct(after.costCalculated, before.distanceKm,
                                        RateOf(before))) ]_vars

\* after an update the trip's cost is 10.00 km at the rate 2.00 the admin
\* gave the client
C30_Witness ==
    /\ resp.op = "patchTrip" /\ resp.code = 200 /\ resp.id \in TripIds
    /\ Resolvable(trips[resp.id]) /\ RateOf(trips[resp.id]) = 200
    /\ trips[resp.id].distanceKm = 1000
    /\ trips[resp.id].costCalculated = Some(2000)

WithoutCost(body) == [body EXCEPT !.costCalculated = Absent]

\* the cost is one the server computes for this trip: its distance times the
\* rate of an existing client
ServerComputed(cost, trip) ==
    \E c \in ClientIds :
       getClient(c) # Null
          /\ IsProduct(cost, trip.distanceKm, getClient(c)[1].ratePerKm)

\* C28: for every POST /trips and PATCH /trips/:id a costCalculated carried in
\* the body has no effect (the request does what the same request without it
\* does), and the stored costCalculated is the server-computed distance x rate
\* or is left as it was.
C28_BodyCostIsIgnored ==
    [][ /\ resp'.op = "postTrip" =>
              \A body \in RefreshPostBodies :
                 PostTrip("d1", body)
                    => /\ \E plain \in RefreshPostBodies :
                             /\ plain = WithoutCost(body)
                             /\ trips' = IF resp'.code = 201
                                         THEN Append(trips, createTrip(tripDataOf(plain, "d1")))
                                         ELSE trips
                       /\ resp'.code = 201 =>
                             \/ trips'[resp'.id].costCalculated = Null
                             \/ ServerComputed(trips'[resp'.id].costCalculated,
                                               trips'[resp'.id])
        /\ OnTrip("patchTrip") =>
              \A body \in RefreshPatchBodies :
                 PatchTrip("d1", resp'.id, body)
                    => /\ trips' = IF resp'.code = 200
                                   THEN [trips EXCEPT ![resp'.id] =
                                           updateTrip(@, WithoutCost(body), Some("d1"))]
                                   ELSE trips
                       /\ \/ trips'[resp'.id].costCalculated =
                                trips[resp'.id].costCalculated
                          \/ ServerComputed(trips'[resp'.id].costCalculated,
                                            trips'[resp'.id]) ]_vars

\* a PATCH that carried a cost of 999.99 succeeded on a trip whose stored cost
\* is the 15.00 the server computes for it
C28_Witness ==
    /\ resp.op = "patchTrip" /\ resp.code = 200 /\ resp.id \in TripIds
    /\ resp.bodyCost = Some(Some(99999))
    /\ trips[resp.id].costCalculated = Some(1500)
    /\ Resolvable(trips[resp.id])

\* ============================================ concurrent updates (SpecUpdates)
\* C24: when two updateTrip calls on the same trip run concurrently, one
\* changing distanceKm and the other changing clientId, then once both have
\* completed the stored costCalculated equals the stored distanceKm times the
\* ratePerKm of the stored client.
C24_ConcurrentUpdatesKeepCostConsistent ==
    (\A actor \in CostActors : pending[actor] = Null)
       => \A t \in TripIds :
             Resolvable(trips[t]) =>
                trips[t].costCalculated =
                   Some(ToFixed2(trips[t].distanceKm, RateOf(trips[t])))

\* ==================================================== trip lifetime (SpecApi)
\* C21: trips are never deleted: over every step of the API (trip create,
\* update and review, client create, update and delete, profile update) the
\* trip ids of the state before are trip ids of the state after.
C21_TripsAreNeverDeleted ==
    [][ /\ Len(trips') >= Len(trips)
        /\ \A t \in TripIds : t \in 1..Len(trips')
                                 /\ trips'[t].tripDate = trips[t].tripDate ]_vars

\* a client was deleted while an approved trip of a driver who has edited
\* their profile is stored
C21_Witness ==
    /\ resp.op = "deleteClient" /\ resp.code = 204
    /\ \E t \in TripIds : trips[t].status = "approved"
    /\ users["d1"].vehicleName # Null

\* ======================================= referential integrity (SpecIntegrity)
\* C25: when deleteClient runs concurrently with a createTrip or updateTrip
\* that attaches a trip to the same client, no interleaving reaches a state
\* where a trip's clientId names a client that does not exist, and no
\* DELETE /clients/:id is answered 204 for a client that a trip references
\* when the row is deleted.
C25_DeleteNeverLeavesDanglingTrip ==
    [][ /\ \A t \in 1..Len(trips') :
              trips'[t].clientId # Null => clients'[trips'[t].clientId[1]] # Null
        /\ (resp'.op = "deleteClient" /\ resp'.code = 204 /\ pending # pending')
              => \A t \in TripIds : trips[t].clientId # Some(resp'.id) ]_vars

\* the count found no trip, a trip was attached to the client before the
\* DELETE ran, and the DELETE was refused
C25_Witness ==
    /\ resp.op = "deleteClient" /\ resp.code = 500
    /\ getClient(resp.id) # Null
    /\ \E t \in TripIds : trips[t].clientId = Some(resp.id)

====
